---- MODULE Spec2Model ----
(***************************************************************************)
(* A model of termpdf's navigation engine (src/src/main.rs): the           *)
(* Coordinator loop of runmulti/browser, the FileList cursor, the Pdf      *)
(* session, the mpsc command channel and its two producer threads.         *)
(*                                                                         *)
(* Paths are identified by their position in the argument list (1..n).     *)
(* A rendered Page is identified by the file and page index it was         *)
(* rasterized from.  Documents are rewritten on disk at any time, so each   *)
(* load of a document (Pdf::new, get_page) reads a page count n drawn from *)
(* 1..MaxPages; the terminal and the pdfium binding are taken to work.     *)
(* usize indices are plain naturals: every subtraction in the code is      *)
(* guarded (length >= 1, current_file # 0, current_page # 0).              *)
(*                                                                         *)
(* History variables (not program state): c, the command the receive loop  *)
(* consumed last, with the producer that sent it; rendered, whether the    *)
(* last Coordinator step rasterized a page.                                *)
(***************************************************************************)
EXTENDS Integers, Sequences, FiniteSets

VARIABLES
    current_file,   \* FileList.current_file (0-based)
    pdf,            \* the Pdf session: file, page, current_page, length
    double_gg,      \* browser's local double_gg
    rx,             \* the mpsc channel (tx, rx): commands in flight
    pc,             \* the Coordinator's position
    kbd,            \* the keyboard thread
    watch,          \* the filesystem-watch thread
    rx2,            \* a debounced event waits on the watch thread's rx2
    displayed,      \* the Page last emitted to the terminal
    printed,        \* the path printed on stdout at exit (0: nothing)
    exit_code,      \* the process's exit code (-1: still running)
    c,              \* history: the command consumed last
    rendered,       \* history: the last Coordinator step rasterized a page
    page_size,      \* Page.size of the page handed to display: (width, height)
    term_size,      \* termion::terminal_size(): (columns, rows)
    emitted         \* what display wrote for that page and terminal

vars == <<current_file, pdf, double_gg, rx, pc, kbd, watch, rx2,
          displayed, printed, exit_code, c, rendered,
          page_size, term_size, emitted>>

\* The variables of Page::display's sizing rule.  Spec and SpecDeep record a
\* display as `displayed` and leave these idle; SpecDisplay runs the rule.
disp == <<page_size, term_size, emitted>>

\* Bounds of the model.
NumFiles == 3
MaxPages == 2
MaxQueue == 1

\* PdfPageIndex is u16: `p as u16`.
U16Mod == 65536

\* enum Msg
Msg == {"NextPage", "PreviousPage", "NextDocument", "PreviousDocument",
        "Refresh", "Quit", "Open", "None", "LastPage", "FirstPage"}

\* FileList.files, as main builds it from the arguments.
files == [i \in 1..NumFiles |-> i]

\* Option<usize>
None == <<>>
Some(v) == <<v>>

----------------------------------------------------------------------------
\* FileList

FileListCurrent(cf) == files[cf + 1]

FileListNextWrap(cf) == (cf + 1) % Len(files)

FileListNext(cf) == IF cf # Len(files) - 1 THEN cf + 1 ELSE cf

FileListPrev(cf) == IF cf # 0 THEN cf - 1 ELSE cf

----------------------------------------------------------------------------
\* Pdf

\* document.pages().get(p as u16) is Ok, for a document that has n pages now.
PageExists(p, n) == (p % U16Mod) < n

\* The Page rasterized from page p of file f.
Render(f, p) == [file |-> f, index |-> p]

PdfNewStart(cp) == IF cp = None THEN 0 ELSE cp[1]

\* Pdf::new returns a Pdf (page.unwrap() does not panic).
PdfNewOk(cp, n) == PageExists(PdfNewStart(cp), n)

\* The Pdf that Pdf::new(f, cp) returns when it loads a document of n pages.
PdfNew(f, cp, n) ==
    [file         |-> f,
     page         |-> Render(f, PdfNewStart(cp)),
     current_page |-> PdfNewStart(cp),
     length       |-> n]

\* runmulti's locals file and file2: the path current at startup.
file == FileListCurrent(0)
file2 == file

----------------------------------------------------------------------------
\* State after main has built the FileList and runmulti has opened the first
\* document, spawned both threads and entered browser for the first time.

NoCommand == [msg |-> "", src |-> ""]

Startup ==
    /\ current_file = 0
    /\ \E n \in 1..MaxPages : pdf = PdfNew(file, None, n)
    /\ double_gg = FALSE
    /\ rx = <<>>
    /\ pc = "browser"
    /\ kbd = "running"
    /\ watch = "setup"
    /\ rx2 = FALSE
    /\ displayed = pdf.page
    /\ printed = 0
    /\ exit_code = -1
    /\ c = NoCommand
    /\ rendered = TRUE

\* Nothing emitted through the sizing rule.
NoEmit == [by |-> "none", cells |-> 0]

Init ==
    /\ Startup
    /\ page_size = <<1, 1>>
    /\ term_size = <<2, 2>>
    /\ emitted = NoEmit

\* The process has neither exited nor panicked.
Alive == pc \notin {"exited", "panic"}

env == <<kbd, watch, rx2>>

----------------------------------------------------------------------------
\* browser: the receive loop `for c in rx { match c { ... } }`

ConsumeNewest(m) ==
    /\ pc = "browser"
    /\ rx # <<>>
    /\ rx[Len(rx)].msg = m
    /\ rx' = SubSeq(rx, 1, Len(rx) - 1)
    /\ c' = rx[Len(rx)]

\* The loop takes the oldest command off the channel.
Consume(m) ==
    /\ pc = "browser"
    /\ rx # <<>>
    /\ Head(rx).msg = m
    /\ rx' = Tail(rx)
    /\ c' = Head(rx)

\* The caller has set pdf.current_page = p; get_page(p) reloads the document
\* from disk and rasterizes page p (page.unwrap() panics when p is not a page
\* of the document as it is now), then display(None) emits it.
GetPageAndDisplay(p) ==
    \E n \in 1..MaxPages :
        IF PageExists(p, n)
        THEN /\ pdf' = [pdf EXCEPT !.current_page = p,
                                   !.page = Render(pdf.file, p)]
             /\ displayed' = Render(pdf.file, p)
             /\ rendered' = TRUE
             /\ UNCHANGED <<pc, exit_code>>
        ELSE /\ pdf' = [pdf EXCEPT !.current_page = p]
             /\ rendered' = FALSE
             /\ pc' = "panic"
             /\ exit_code' = 101
             /\ UNCHANGED displayed

\* A match arm that touches neither the session nor the terminal.
NoRender ==
    /\ rendered' = FALSE
    /\ UNCHANGED <<pdf, displayed, exit_code>>

FirstPageTargetKeep == pdf.current_page

FirstPageTarget == 0

RecvFirstPage ==
    /\ UNCHANGED disp
    /\ Consume("FirstPage")
    /\ IF double_gg
       THEN GetPageAndDisplay(FirstPageTarget) /\ UNCHANGED double_gg
       ELSE double_gg' = TRUE /\ NoRender /\ UNCHANGED pc
    /\ UNCHANGED <<current_file, env, printed>>

RecvLastPage ==
    /\ UNCHANGED disp
    /\ Consume("LastPage")
    /\ GetPageAndDisplay(pdf.length - 1)
    /\ UNCHANGED <<current_file, double_gg, env, printed>>

RecvNone ==
    /\ UNCHANGED disp
    /\ Consume("None")
    /\ NoRender
    /\ UNCHANGED <<current_file, double_gg, pc, env, printed>>

RecvQuit ==
    /\ UNCHANGED disp
    /\ Consume("Quit")
    /\ pc' = "Done"
    /\ NoRender
    /\ UNCHANGED <<current_file, double_gg, env, printed>>

\* Command::new("open").arg(&pdf.file).spawn().expect(..): a failed spawn panics.
RecvOpen ==
    /\ UNCHANGED disp
    /\ Consume("Open")
    /\ \E spawned \in BOOLEAN :
          IF spawned
          THEN NoRender /\ UNCHANGED pc
          ELSE /\ pc' = "panic"
               /\ exit_code' = 101
               /\ rendered' = FALSE
               /\ UNCHANGED <<pdf, displayed>>
    /\ UNCHANGED <<current_file, double_gg, env, printed>>

RecvRefresh ==
    /\ UNCHANGED disp
    /\ Consume("Refresh")
    /\ pc' = "Oker"
    /\ NoRender
    /\ UNCHANGED <<current_file, double_gg, env, printed>>

NextPageMovesAlways == TRUE

NextPageMoves == pdf.current_page # (pdf.length - 1)

PreviousPageMovesOffByOne == pdf.current_page > 1

PreviousPageMoves == pdf.current_page # 0

RecvNextPage ==
    /\ UNCHANGED disp
    /\ Consume("NextPage")
    /\ double_gg' = FALSE
    /\ IF NextPageMoves
       THEN GetPageAndDisplay(pdf.current_page + 1)
       ELSE NoRender /\ UNCHANGED pc
    /\ UNCHANGED <<current_file, env, printed>>

RecvPreviousPage ==
    /\ UNCHANGED disp
    /\ Consume("PreviousPage")
    /\ double_gg' = FALSE
    /\ IF PreviousPageMoves
       THEN GetPageAndDisplay(pdf.current_page - 1)
       ELSE NoRender /\ UNCHANGED pc
    /\ UNCHANGED <<current_file, env, printed>>

RecvNextDocument ==
    /\ UNCHANGED disp
    /\ Consume("NextDocument")
    /\ pc' = "Next"
    /\ NoRender
    /\ UNCHANGED <<current_file, double_gg, env, printed>>

RecvPreviousDocument ==
    /\ UNCHANGED disp
    /\ Consume("PreviousDocument")
    /\ pc' = "Previous"
    /\ NoRender
    /\ UNCHANGED <<current_file, double_gg, env, printed>>

\* Every sender is gone and the channel is drained: the for loop ends and
\* browser returns Ok(Refersh::Done).
LoopEnd ==
    /\ UNCHANGED disp
    /\ pc = "browser"
    /\ rx = <<>>
    /\ kbd = "ended"
    /\ watch = "ended"
    /\ pc' = "Done"
    /\ UNCHANGED <<current_file, pdf, double_gg, rx, env, displayed, printed,
                   exit_code, c, rendered>>

----------------------------------------------------------------------------
\* runmulti: the match on browser's result, then browser's entry
\* (display of the session's page, double_gg = false).

\* pdf = Pdf::new(f, cp).expect(..), then the next browser call begins.
Reopen(f, cp) ==
    \E n \in 1..MaxPages :
        IF PdfNewOk(cp, n)
        THEN /\ pdf' = PdfNew(f, cp, n)
             /\ displayed' = PdfNew(f, cp, n).page
             /\ double_gg' = FALSE
             /\ rendered' = TRUE
             /\ pc' = "browser"
             /\ UNCHANGED exit_code
        ELSE /\ pc' = "panic"
             /\ exit_code' = 101
             /\ rendered' = FALSE
             /\ UNCHANGED <<pdf, displayed, double_gg>>

\* Refersh::Oker reopens runmulti's local `file`.
RefreshPathCurrent == FileListCurrent(current_file)

RefreshPath == file

\* The same arm, were the channel made anew for each browser call.
MatchOkerNewChannel ==
    /\ UNCHANGED disp
    /\ pc = "Oker"
    /\ Reopen(RefreshPath, Some(pdf.current_page))
    /\ rx' = <<>>
    /\ UNCHANGED <<current_file, env, printed, c>>

MatchOker ==
    /\ UNCHANGED disp
    /\ pc = "Oker"
    /\ Reopen(RefreshPath, Some(pdf.current_page))
    /\ UNCHANGED <<current_file, rx, env, printed, c>>

NextStartKeep == Some(pdf.current_page)

NextStart == None

MatchNext ==
    /\ UNCHANGED disp
    /\ pc = "Next"
    /\ current_file' = FileListNext(current_file)
    /\ Reopen(FileListCurrent(FileListNext(current_file)), NextStart)
    /\ UNCHANGED <<rx, env, printed, c>>

MatchPrevious ==
    /\ UNCHANGED disp
    /\ pc = "Previous"
    /\ current_file' = FileListPrev(current_file)
    /\ Reopen(FileListCurrent(FileListPrev(current_file)), None)
    /\ UNCHANGED <<rx, env, printed, c>>

\* Refersh::Done: print the session's path, return Ok(()); main exits with 0.
DonePathStartup == file

\* println!("{}", pdf.file)
DonePath == pdf.file

MatchDone ==
    /\ UNCHANGED disp
    /\ pc = "Done"
    /\ printed' = DonePath
    /\ exit_code' = 0
    /\ pc' = "exited"
    /\ UNCHANGED <<current_file, pdf, double_gg, rx, env, displayed, c, rendered>>

----------------------------------------------------------------------------
\* The producer threads and the file system.

coord == <<current_file, pdf, double_gg, pc, displayed, printed, exit_code,
           c, rendered>>

\* stdin.keys(): every key becomes a Msg (impl From<Key> for Msg) and is sent.
KeySend ==
    /\ UNCHANGED disp
    /\ Alive
    /\ kbd = "running"
    /\ Len(rx) < MaxQueue
    /\ \E m \in Msg : rx' = Append(rx, [msg |-> m, src |-> "key"])
    /\ UNCHANGED <<coord, env>>

\* stdin is closed: the keys() iterator ends, the thread returns, tx is dropped.
KeyEnd ==
    /\ UNCHANGED disp
    /\ Alive
    /\ kbd = "running"
    /\ kbd' = "ended"
    /\ UNCHANGED <<coord, rx, watch, rx2>>

\* new_debouncer and watcher.watch(file2) succeed.
WatchArm ==
    /\ UNCHANGED disp
    /\ Alive
    /\ watch = "setup"
    /\ watch' = "watching"
    /\ UNCHANGED <<coord, rx, kbd, rx2>>

\* A failed setup that takes the whole process down with it.
WatchFailEndsProcess ==
    /\ UNCHANGED disp
    /\ Alive
    /\ watch = "setup"
    /\ watch' = "ended"
    /\ pc' = "panic"
    /\ exit_code' = 101
    /\ UNCHANGED <<current_file, pdf, double_gg, displayed, printed, c,
                   rendered, rx, kbd, rx2>>

\* new_debouncer fails (bail!) or watch() fails (expect panics the thread):
\* the thread ends and tx1 is dropped.
WatchFail ==
    /\ UNCHANGED disp
    /\ Alive
    /\ watch = "setup"
    /\ watch' = "ended"
    /\ UNCHANGED <<coord, rx, kbd, rx2>>

\* for res in rx2 { Ok(_) => tx1.send(Msg::Refresh) }
WatchSend ==
    /\ UNCHANGED disp
    /\ Alive
    /\ watch = "watching"
    /\ rx2
    /\ Len(rx) < MaxQueue
    /\ rx' = Append(rx, [msg |-> "Refresh", src |-> "watch"])
    /\ rx2' = FALSE
    /\ UNCHANGED <<coord, kbd, watch>>

\* The path the watch thread watches.
WatchedPath == file2

\* A document is rewritten on disk.  The debouncer collapses the events on
\* the watched path into one message on rx2; other paths raise no event.
DiskChange ==
    /\ UNCHANGED disp
    /\ Alive
    /\ \E f \in 1..NumFiles :
          rx2' = IF watch = "watching" /\ f = WatchedPath THEN TRUE ELSE rx2
    /\ UNCHANGED <<coord, rx, kbd, watch>>

Next ==
    \/ RecvFirstPage
    \/ RecvLastPage
    \/ RecvNone
    \/ RecvQuit
    \/ RecvOpen
    \/ RecvRefresh
    \/ RecvNextPage
    \/ RecvPreviousPage
    \/ RecvNextDocument
    \/ RecvPreviousDocument
    \/ LoopEnd
    \/ MatchOker
    \/ MatchNext
    \/ MatchPrevious
    \/ MatchDone
    \/ KeySend
    \/ KeyEnd
    \/ WatchArm
    \/ WatchFail
    \/ WatchSend
    \/ DiskChange

Spec == Init /\ [][Next]_vars

\* The same program with room for one more command in the channel (the mpsc
\* channel is unbounded): the order of the commands in flight is visible.
DeepQueue == MaxQueue + 1

KeySendDeep ==
    /\ UNCHANGED disp
    /\ Alive
    /\ kbd = "running"
    /\ Len(rx) < DeepQueue
    /\ \E m \in Msg : rx' = Append(rx, [msg |-> m, src |-> "key"])
    /\ UNCHANGED <<coord, env>>

WatchSendDeep ==
    /\ UNCHANGED disp
    /\ Alive
    /\ watch = "watching"
    /\ rx2
    /\ Len(rx) < DeepQueue
    /\ rx' = Append(rx, [msg |-> "Refresh", src |-> "watch"])
    /\ rx2' = FALSE
    /\ UNCHANGED <<coord, kbd, watch>>

NextDeep ==
    \/ RecvFirstPage
    \/ RecvLastPage
    \/ RecvNone
    \/ RecvQuit
    \/ RecvOpen
    \/ RecvRefresh
    \/ RecvNextPage
    \/ RecvPreviousPage
    \/ RecvNextDocument
    \/ RecvPreviousDocument
    \/ LoopEnd
    \/ MatchOker
    \/ MatchNext
    \/ MatchPrevious
    \/ MatchDone
    \/ KeySendDeep
    \/ KeyEnd
    \/ WatchArm
    \/ WatchFail
    \/ WatchSendDeep
    \/ DiskChange

SpecDeep == Init /\ [][NextDeep]_vars

----------------------------------------------------------------------------
\* Page::display(None): the sizing rule, on page sizes and terminal sizes
\* drawn from small sets.  The casts `as i32` are the identity on them.

\* Page sides in pixels are 1..MaxSide; terminal sides in cells are 0..MaxSide
\* (an unsized pty reports 0 columns and 0 rows).
MaxSide == 3

\* (a as i32 / b as i32) >= 1, for b # 0
AspectAtLeastOne(a, b) == (a \div b) >= 1

\* The thread panics.
Panicked == [by |-> "panic", cells |-> 0]

\* `x - 2` on u16: below 2 it overflows, which panics in a build with
\* overflow checks and wraps in one without.
MinusMargin(by, x) ==
    IF x >= 2
    THEN {[by |-> by, cells |-> x - 2]}
    ELSE {Panicked, [by |-> by, cells |-> (x - 2) % U16Mod]}

\* What display can write for a page of w x h pixels on a terminal of
\* cols x rows cells.  A division by zero panics.
DisplayOutcomes(w, h, cols, rows) ==
    IF h = 0 \/ rows = 0
    THEN {Panicked}
    ELSE IF (AspectAtLeastOne(w, h) = FALSE) /\ (AspectAtLeastOne(cols, rows) = TRUE)
         THEN MinusMargin("height", rows)
         ELSE MinusMargin("width", cols)

PageSizes == (1..MaxSide) \X (1..MaxSide)

TermSizes == (0..MaxSide) \X (0..MaxSide)

InitDisplay ==
    /\ Startup
    /\ page_size \in PageSizes
    /\ term_size \in TermSizes
    /\ emitted = NoEmit

\* pdf.page.display(None)
Display ==
    /\ emitted = NoEmit
    /\ emitted' \in DisplayOutcomes(page_size[1], page_size[2],
                                     term_size[1], term_size[2])
    /\ UNCHANGED <<coord, rx, env, page_size, term_size>>

\* Another page is rendered, or the terminal is resized, before the next
\* display.
NewPageOrTerminal ==
    /\ emitted # NoEmit
    /\ emitted # Panicked
    /\ page_size' \in PageSizes
    /\ term_size' \in TermSizes
    /\ emitted' = NoEmit
    /\ UNCHANGED <<coord, rx, env>>

NextDisplay ==
    \/ Display
    \/ NewPageOrTerminal

SpecDisplay == InitDisplay /\ [][NextDisplay]_vars

----------------------------------------------------------------------------
\* The program of SpecDeep with one send under observation: a command sent
\* while runmulti is between two browser calls carries that fact in its src,
\* one such command at a time, and the main thread is scheduled fairly.

\* runmulti is in a match arm that rebuilds the session.
Rebuilding == pc \in {"Oker", "Next", "Previous"}

SentInRebuild(r) == r.src \in {"key:rebuild", "watch:rebuild"}

\* Where the observed command is in the channel; 0 when it is not there.
ObservedAt ==
    IF \E i \in 1..Len(rx) : SentInRebuild(rx[i])
    THEN CHOOSE i \in 1..Len(rx) : SentInRebuild(rx[i])
    ELSE 0

Observe == Rebuilding /\ ObservedAt = 0 /\ ~SentInRebuild(c)

KeySendObserved ==
    /\ UNCHANGED disp
    /\ Alive
    /\ kbd = "running"
    /\ Len(rx) < DeepQueue
    /\ \E m \in Msg :
          rx' = Append(rx, [msg |-> m,
                            src |-> IF Observe THEN "key:rebuild" ELSE "key"])
    /\ UNCHANGED <<coord, env>>

WatchSendObserved ==
    /\ UNCHANGED disp
    /\ Alive
    /\ watch = "watching"
    /\ rx2
    /\ Len(rx) < DeepQueue
    /\ rx' = Append(rx, [msg |-> "Refresh",
                         src |-> IF Observe THEN "watch:rebuild" ELSE "watch"])
    /\ rx2' = FALSE
    /\ UNCHANGED <<coord, kbd, watch>>

NextRebuild ==
    \/ RecvFirstPage
    \/ RecvLastPage
    \/ RecvNone
    \/ RecvQuit
    \/ RecvOpen
    \/ RecvRefresh
    \/ RecvNextPage
    \/ RecvPreviousPage
    \/ RecvNextDocument
    \/ RecvPreviousDocument
    \/ LoopEnd
    \/ MatchOker
    \/ MatchNext
    \/ MatchPrevious
    \/ MatchDone
    \/ KeySendObserved
    \/ KeyEnd
    \/ WatchArm
    \/ WatchFail
    \/ WatchSendObserved
    \/ DiskChange

\* One iteration of browser's receive loop.
Receive ==
    \/ RecvFirstPage
    \/ RecvLastPage
    \/ RecvNone
    \/ RecvQuit
    \/ RecvOpen
    \/ RecvRefresh
    \/ RecvNextPage
    \/ RecvPreviousPage
    \/ RecvNextDocument
    \/ RecvPreviousDocument

\* One of runmulti's rebuilding match arms.
Rebuild ==
    \/ MatchOker
    \/ MatchNext
    \/ MatchPrevious

\* The main thread is not blocked in a match arm, and recv returns when the
\* channel holds a command: both keep running.
SpecRebuild ==
    /\ Init
    /\ [][NextRebuild]_vars
    /\ WF_vars(Receive)
    /\ WF_vars(Rebuild)

Refersh == {"Oker", "Done", "Next", "Previous"}

TypeOK ==
    /\ current_file \in 0..(NumFiles - 1)
    /\ pdf.file \in 1..NumFiles
    /\ pdf.current_page \in 0..(MaxPages - 1)
    /\ pdf.length \in 1..MaxPages
    /\ double_gg \in BOOLEAN
    /\ Len(rx) <= DeepQueue
    /\ pc \in {"browser", "exited", "panic"} \cup Refersh
    /\ kbd \in {"running", "ended"}
    /\ watch \in {"setup", "watching", "ended"}
    /\ rx2 \in BOOLEAN
    /\ exit_code \in {-1, 0, 101}
    /\ page_size \in PageSizes
    /\ term_size \in TermSizes
    /\ emitted.by \in {"none", "height", "width", "panic"}

----------------------------------------------------------------------------
\* Steps and states the properties below speak of.

\* The receive loop consumes command m in this step.
ConsumeStep(m) ==
    /\ pc = "browser"
    /\ rx # <<>>
    /\ Head(rx).msg = m
    /\ rx' = Tail(rx)

\* runmulti handles browser's result r in this step.
MatchStep(r) == pc = r /\ pc' # r

\* The Coordinator is in Browsing: in the receive loop, or between two
\* browser calls with a session to rebuild.
Browsing == pc \in {"browser", "Oker", "Next", "Previous"}

LastIndex == Len(files) - 1

----------------------------------------------------------------------------
\* C1: in every reachable state the session satisfies
\* 0 <= current_page < page_count (Pdf.length), whatever page counts the
\* documents have each time they are loaded.
C1_PageInBounds == 0 <= pdf.current_page /\ pdf.current_page < pdf.length

\* C1 witness: a Refresh has reloaded the session on its last page, which is
\* not page 0, and the Coordinator is back in the receive loop.
C1_Witness ==
    /\ pc = "browser"
    /\ c.msg = "Refresh"
    /\ pdf.current_page = pdf.length - 1
    /\ pdf.current_page > 0

\* C2: handling a Refresh leaves the Coordinator in Browsing with the session
\* at the page it had before when that page is below the new page count,
\* and at the new page count - 1 otherwise.
C2_RefreshKeepsOrClamps ==
    [][MatchStep("Oker") =>
          /\ pc' = "browser"
          /\ pdf'.current_page =
                 IF pdf.current_page < pdf'.length
                 THEN pdf.current_page
                 ELSE pdf'.length - 1]_vars

\* C3: a Refresh sent by the watch thread while the current document is not
\* the watched one is a no-op: the session's document, its current page and
\* the FileList index are unchanged.
C3_StaleRefreshNoOp ==
    [][(MatchStep("Oker") /\ c.src = "watch"
            /\ FileListCurrent(current_file) # WatchedPath) =>
          /\ pdf'.file = pdf.file
          /\ pdf'.current_page = pdf.current_page
          /\ current_file' = current_file]_vars

\* C4: NextDocument at the last path and PreviousDocument at the first path
\* leave the session unchanged: same document, same current page.
C4_EdgeDocumentNoOp ==
    [][((MatchStep("Next") /\ current_file = LastIndex)
            \/ (MatchStep("Previous") /\ current_file = 0)) =>
          /\ pdf'.file = pdf.file
          /\ pdf'.current_page = pdf.current_page]_vars

\* C5: 0 <= current_file < len(files) in every reachable state; no step moves
\* the index by more than one, NextDocument at the last path and
\* PreviousDocument at the first leave it where it is (no wraparound).
C5_IndexInBounds ==
    /\ current_file \in 0..LastIndex
    /\ [][/\ current_file' \in 0..LastIndex
          /\ current_file' - current_file \in {-1, 0, 1}
          /\ MatchStep("Next") /\ current_file = LastIndex
                => current_file' = LastIndex
          /\ MatchStep("Previous") /\ current_file = 0
                => current_file' = 0]_vars

\* C5 witness: NextDocument has been handled and the index is at the last path.
C5_Witness ==
    /\ pc = "browser"
    /\ c.msg = "NextDocument"
    /\ current_file = LastIndex
    /\ LastIndex > 0

\* C6: a FirstPage consumed right after any command other than FirstPage
\* leaves current_page unchanged and renders nothing.
C6_OtherCommandDisarms ==
    [][(ConsumeStep("FirstPage") /\ c.msg \in Msg \ {"FirstPage"}) =>
          /\ pdf'.current_page = pdf.current_page
          /\ ~rendered']_vars

C8_PageSteps ==
    [][/\ ConsumeStep("NextPage") =>
             IF pdf.current_page < pdf.length - 1
             THEN pdf'.current_page = pdf.current_page + 1
             ELSE pdf' = pdf /\ displayed' = displayed /\ pc' = pc
       /\ ConsumeStep("PreviousPage") =>
             IF pdf.current_page > 0
             THEN pdf'.current_page = pdf.current_page - 1
             ELSE pdf' = pdf /\ displayed' = displayed /\ pc' = pc
       /\ (ConsumeStep("NextPage") \/ ConsumeStep("PreviousPage")) =>
             /\ pdf'.file = pdf.file
             /\ pdf'.length = pdf.length
             /\ current_file' = current_file]_vars

\* C8 witness: a NextPage has been consumed and rendered the last page of a
\* document of more than one page.
C8_Witness ==
    /\ pc = "browser"
    /\ c.msg = "NextPage"
    /\ rendered
    /\ pdf.current_page = pdf.length - 1
    /\ pdf.current_page > 0
    /\ displayed = Render(pdf.file, pdf.current_page)

C10_OnlyQuitEndsLoop ==
    [][(pc = "browser" /\ pc' = "Done") => ConsumeStep("Quit")]_vars

----------------------------------------------------------------------------
\* C11: consuming Quit ends the loop with the session as it was; the process
\* then exits with code 0 and prints the path of the session's document, the
\* one on display.  In a 1-page document NextPage and PreviousPage change
\* nothing.
C11_QuitExitsWithPath ==
    [][/\ ConsumeStep("Quit") =>
             /\ pc' = "Done"
             /\ pdf' = pdf
             /\ displayed' = displayed
       /\ MatchStep("Done") =>
             /\ pc' = "exited"
             /\ exit_code' = 0
             /\ printed' = pdf.file
             /\ printed' = displayed.file
       /\ ((ConsumeStep("NextPage") \/ ConsumeStep("PreviousPage"))
               /\ pdf.length = 1) =>
             /\ pdf' = pdf
             /\ displayed' = displayed
             /\ pc' = "browser"]_vars

\* C11 witness: the process has exited after a Quit on a 1-page document,
\* with code 0 and the session's path printed.
C11_Witness ==
    /\ pc = "exited"
    /\ c.msg = "Quit"
    /\ exit_code = 0
    /\ printed = pdf.file
    /\ pdf.length = 1

----------------------------------------------------------------------------
\* C12: the channel changes only by a producer appending one command at its
\* tail, in a step that leaves the Coordinator's state alone, or by the
\* receive loop taking the command at its head: commands are applied in the
\* order they were enqueued, with no priority between the keyboard and the
\* watch thread.
C12_FifoSingleConsumer ==
    [][\/ rx' = rx
       \/ /\ \E m \in Msg, s \in {"key", "watch"} :
                rx' = Append(rx, [msg |-> m, src |-> s])
          /\ UNCHANGED coord
       \/ /\ pc = "browser"
          /\ rx # <<>>
          /\ rx' = Tail(rx)
          /\ c' = Head(rx)]_vars

\* C12 witness: the receive loop has consumed a command while a command of
\* the watch thread waits in the channel ahead of one of the keyboard.
C12_Witness ==
    /\ pc = "browser"
    /\ c # NoCommand
    /\ Len(rx) = 2
    /\ rx[1].src = "watch"
    /\ rx[2].src = "key"

\* C13: handling Refresh, NextDocument or PreviousDocument never terminates
\* the Coordinator: it is back in the receive loop afterwards, with the
\* previous session and page still in place when the document could not be
\* reopened.
C13_ReopenContained ==
    [][(MatchStep("Oker") \/ MatchStep("Next") \/ MatchStep("Previous")) =>
          /\ pc' = "browser"
          /\ (~rendered' => pdf' = pdf /\ displayed' = displayed)]_vars

\* C14: Open changes neither the session nor the FileList index and leaves
\* the Coordinator in the receive loop, whether or not the viewer was spawned.
C14_OpenIsInert ==
    [][ConsumeStep("Open") =>
          /\ pdf' = pdf
          /\ current_file' = current_file
          /\ pc' = "browser"]_vars

----------------------------------------------------------------------------
\* The image display was asked to size for the page and terminal at hand:
\* by height, rows - 2, for a portrait page on a landscape terminal, by width,
\* columns - 2, otherwise.
SizedAsStated ==
    IF page_size[1] < page_size[2] /\ term_size[1] >= term_size[2]
    THEN [by |-> "height", cells |-> term_size[2] - 2]
    ELSE [by |-> "width", cells |-> term_size[1] - 2]

\* C15: for every page size and terminal size, display emits the image sized
\* by height = rows - 2 exactly when the page is portrait and the terminal
\* landscape, and by width = columns - 2 otherwise; one of the two per emit.
C15_DisplaySizing == emitted # NoEmit => emitted = SizedAsStated

\* The same on terminals that have a row and hold the 2-cell margin in the
\* dimension used: there the rule is as C15 states it.
DisplaySizingWhereMarginFits ==
    (/\ emitted # NoEmit
     /\ term_size[2] >= 1
     /\ SizedAsStated.cells >= 0) => emitted = SizedAsStated

\* C16: the filesystem watch follows the current document: whenever the
\* Coordinator waits for a command with the watch armed, the watched path is
\* the DocumentList's current path, also after NextDocument/PreviousDocument.
C16_WatchFollowsCurrent ==
    (pc = "browser" /\ watch = "watching") =>
        WatchedPath = FileListCurrent(current_file)

\* C17: the page index does not advance unless the render succeeded: a
\* NextPage, PreviousPage, FirstPage or LastPage whose page did not render
\* leaves current_page and the rendered page as they were before the command.
C17_IndexKeptOnRenderFailure ==
    [][((\E m \in {"NextPage", "PreviousPage", "FirstPage", "LastPage"} :
            ConsumeStep(m)) /\ ~rendered') =>
          /\ pdf'.current_page = pdf.current_page
          /\ pdf'.page = pdf.page]_vars

\* C19: whenever the Coordinator is in the receive loop waiting for a
\* command, the session's source path is the DocumentList's current path,
\* files[current_file].
C19_SessionIsCurrentFile ==
    pc = "browser" => pdf.file = FileListCurrent(current_file)

\* The watch thread ends at setup in this step.
WatchFailStep == watch = "setup" /\ watch' = "ended"

\* No command of the watch thread is in the channel or was the last consumed.
NoWatchCommand ==
    /\ \A i \in 1..Len(rx) : rx[i].src # "watch"
    /\ c.src # "watch"
    /\ ~rx2

\* C18: a failure to arm the watch at setup ends only the watch thread: the
\* step leaves the Coordinator, the channel and the keyboard thread as they
\* were and the process running; from then on the watch thread stays ended
\* and never sends a Refresh, and the receive loop still takes the command at
\* the head of the channel.
C18_WatchFailureContained ==
    /\ [][WatchFailStep => /\ UNCHANGED <<coord, rx, kbd>>
                           /\ Alive'
                           /\ (Browsing => Browsing')]_vars
    /\ [][watch = "ended" => watch' = "ended"]_vars
    /\ [](watch = "ended" => NoWatchCommand)
    /\ []((watch = "ended" /\ pc = "browser" /\ rx # <<>>) => ENABLED Receive)

\* C18 witness: with the watch thread ended at setup, the Coordinator has
\* applied a NextPage from the keyboard and is back waiting in the loop.
C18_Witness ==
    /\ watch = "ended"
    /\ kbd = "running"
    /\ pc = "browser"
    /\ c = [msg |-> "NextPage", src |-> "key"]
    /\ rendered
    /\ pdf.current_page = 1
    /\ displayed = Render(pdf.file, 1)

\* C20: no command is lost across a session rebuild.  A command sent while
\* runmulti rebuilds the session (after Refresh, NextDocument or
\* PreviousDocument) stays in the channel: the rebuild leaves the channel as
\* it is, the command keeps its place until the receive loop takes the command
\* ahead of it, it is consumed from the head and is then in the channel no
\* more; and unless the Coordinator stops (Quit, or the process dies) it is
\* eventually consumed.
C20_NoCommandLostInRebuild ==
    /\ [][Rebuilding => (rx' = rx \/ (Len(rx') = Len(rx) + 1
                                       /\ SubSeq(rx', 1, Len(rx)) = rx
                                       /\ UNCHANGED coord))]_vars
    /\ [][ObservedAt > 0 =>
            \/ ObservedAt' = ObservedAt /\ c' = c
            \/ /\ pc = "browser"
               /\ rx' = Tail(rx)
               /\ c' = Head(rx)
               /\ ObservedAt' = ObservedAt - 1]_vars
    /\ [](SentInRebuild(c) => ObservedAt = 0)
    /\ (ObservedAt > 0) ~> (SentInRebuild(c) \/ ~Browsing)

\* C20 witness: a NextPage typed while the session was being rebuilt has been
\* consumed and applied by the next receive loop.
C20_Witness ==
    /\ pc = "browser"
    /\ c = [msg |-> "NextPage", src |-> "key:rebuild"]
    /\ rendered
    /\ pdf.current_page = 1
    /\ displayed = Render(pdf.file, 1)

====
